---- MODULE Spec2Model ----
(***************************************************************************)
(* Model of twitter.py: the polling loop (scheduled_function), the dedup   *)
(* path (process_tweet), the notifier (send_tweet) and the task supervisor *)
(* (run / stop) over the module globals LATEST and TASKS.                  *)
(*                                                                         *)
(* One polling task exists per chat_id.  A task's position is the await it *)
(* is suspended at; one action is everything the coroutine executes from   *)
(* the completion of that await to the next await.                         *)
(***************************************************************************)
EXTENDS Integers, Sequences, FiniteSets, TLC

(***************************************************************************)
(* Bounds of the model.                                                    *)
(***************************************************************************)
MaxPageLen == 3
MaxFetches == 2
Spread == 8

\* The destinations (chat ids).
Chats == {"A", "B"}

(***************************************************************************)
(* Program constants.                                                      *)
(***************************************************************************)
max_attempts == 3
StartLatest == 85

(***************************************************************************)
(* The feed: three posts of two authors.                                   *)
(***************************************************************************)
T100 == [tweet_id |-> "p1", user_id |-> "u1", timestamp |-> 100, follower_count |-> 50000]
T90 == [tweet_id |-> "p2", user_id |-> "u2", timestamp |-> 90, follower_count |-> 0]
T80 == [tweet_id |-> "p3", user_id |-> "u1", timestamp |-> 80, follower_count |-> 50000]

Timeline == <<T100, T90, T80>>
Tweets == {Timeline[k] : k \in 1..Len(Timeline)}
TweetIds == {t.tweet_id : t \in Tweets}
Users == {t.user_id : t \in Tweets}

\* Pages the search endpoint may answer with: the newest posts as of some
\* moment (a suffix of the timeline, newest first), or the two newest posts
\* out of timestamp order.
Latest(n) == [k \in 1..n |-> Timeline[Len(Timeline) - n + k]]
SortedPages == {Latest(n) : n \in 1..Len(Timeline)}
UnsortedPages == {<<Timeline[2], Timeline[1]>>}
Pages == {p \in SortedPages \cup UnsortedPages : Len(p) <= MaxPageLen}

IsNewestFirst(p) == \A k \in 1..(Len(p) - 1) : p[k].timestamp >= p[k + 1].timestamp

(***************************************************************************)
(* determine_topic_id                                                      *)
(***************************************************************************)
\* Mutant: the thresholds taken as inclusive.
determine_topic_id_inclusive(follower_count) ==
    IF follower_count >= 1000000 THEN 6
    ELSE IF follower_count >= 100000 THEN 5
    ELSE IF follower_count >= 10000 THEN 4
    ELSE 3

determine_topic_id(follower_count) ==
    IF follower_count > 1000000 THEN 6
    ELSE IF follower_count > 100000 THEN 5
    ELSE IF follower_count > 10000 THEN 4
    ELSE 3

\* A drop record of the store; exists = FALSE is get_drop answering None.
NoDrop == [exists |-> FALSE, postIds |-> <<>>]
NewDrop(tweet_id) == [exists |-> TRUE, postIds |-> <<tweet_id>>]

\* status of a step that sends no status message and raises nothing.
NoStatus == ""

\* log of a step that writes nothing to LOGGER.
NoLog == <<>>

\* ended of a step that completes no cycle.
NoCycle == [chat |-> "", data |-> <<>>, wm0 |-> 0, handed |-> <<>>, attempts |-> 0]

InSeq(x, s) == \E k \in 1..Len(s) : s[k] = x

VARIABLES
    LATEST,      \* module global LATEST
    TASKS,       \* keys of the module global TASKS
    banned,      \* store: the ban list
    drops,       \* store: drop record per author
    messages,    \* store: message ids persisted by update_drop_messages
    sent,        \* transport: per (chat, tweet id), the topic of each message delivered
    pc,          \* polling task: the await it is suspended at
    data,        \* polling task: results of the page being processed
    new_latest,  \* polling task: local new_latest
    i,           \* polling task: index of the tweet being processed
    attempts,    \* polling task: send_tweet's attempts
    cancelReq,   \* polling task: task.cancel() was called and not yet delivered
    fetches,     \* number of fetches answered so far (bounded by MaxFetches)
    rpc,         \* position of run(chat_id)
    spc,         \* position of stop(chat_id)
    status,      \* what the step of run / stop tells its caller (message or error)
    log,         \* what the step writes to LOGGER: <<chat, lines>>
    ended,       \* history: the cycle the step completes (reaches line 194)
    handed,      \* history: tweets handed to process_tweet in the cycle
    wm0,         \* history: LATEST when the cycle's page arrived
    fc,          \* input of determine_topic_id (topic specification)
    topic        \* result of determine_topic_id (topic specification)

store == <<banned, drops, messages>>
locals == <<data, new_latest, i, attempts>>
supervisor == <<rpc, spc>>
history == <<handed, wm0>>
topicVars == <<fc, topic>>
vars == <<LATEST, TASKS, banned, drops, messages, sent, pc, data, new_latest, i,
          attempts, cancelReq, fetches, rpc, spc, status, log, ended, handed, wm0,
          fc, topic>>

MsgKeys == Chats \X TweetIds

\* The store as the process finds it: u2 is banned; the store is fresh, or
\* it holds drop records written earlier (an older post of u1, and a post of
\* u2 from before the ban).
BanList == {"u2"}
FreshDrops == [u \in Users |-> NoDrop]
EarlierDrops == [u \in Users |-> IF u = "u2" THEN NewDrop("p2") ELSE NewDrop("p0")]
InitDrops == {FreshDrops, EarlierDrops}

Init ==
    /\ LATEST = StartLatest
    /\ TASKS = {}
    /\ banned = BanList
    /\ drops \in InitDrops
    /\ messages = [k \in MsgKeys |-> 0]
    /\ sent = [k \in MsgKeys |-> <<>>]
    /\ pc = [c \in Chats |-> "none"]
    /\ data = [c \in Chats |-> <<>>]
    /\ new_latest = [c \in Chats |-> 0]
    /\ i = [c \in Chats |-> 0]
    /\ attempts = [c \in Chats |-> 0]
    /\ cancelReq = [c \in Chats |-> FALSE]
    /\ fetches = 0
    /\ rpc = [c \in Chats |-> "idle"]
    /\ spc = [c \in Chats |-> "idle"]
    /\ status = NoStatus
    /\ log = NoLog
    /\ ended = NoCycle
    /\ handed = [c \in Chats |-> <<>>]
    /\ wm0 = [c \in Chats |-> 0]
    /\ fc = 0
    /\ topic = 0

(***************************************************************************)
(* The store (db.MongoDB), as process_tweet and send_tweet use it.  Each   *)
(* call completes atomically or raises without writing.                    *)
(***************************************************************************)
check_banned(user_id) == user_id \in banned

get_drop(user_id) == drops[user_id]

insert_drop(user_id, tweet_id) == [drops EXCEPT ![user_id] = NewDrop(tweet_id)]

update_drop_posts(user_id, tweet_id) ==
    [drops EXCEPT ![user_id].postIds = Append(@, tweet_id)]

\* The message id of the message sent to chat c for a tweet is <<c, tweet id>>.
update_drop_messages(user_id, message_id) ==
    [messages EXCEPT ![message_id] = @ + 1]

(***************************************************************************)
(* scheduled_function                                                      *)
(***************************************************************************)
Running(c) == pc[c] \notin {"none", "cancelled"}

\* A step of the polling task talks to no caller of run / stop.
Silent == status' = NoStatus

\* The step does not complete a cycle.
Within == ended' = NoCycle

\* The lines the step of chat c writes to LOGGER.
Logs(c, lines) == log' = IF lines = <<>> THEN NoLog ELSE <<c, lines>>

\* The task is resumed normally (no CancelledError is thrown into it).
Resumed(c, at) == pc[c] = at /\ ~cancelReq[c]

\* The await of fetch_data (line 180) is over.
Fetched(c) ==
    /\ Resumed(c, "fetch")
    /\ fetches < MaxFetches
    /\ fetches' = fetches + 1

tweet(c) == data[c][i[c]]

\* Lines 188-200 from the head of the for loop at index k of page p: hand the
\* tweet to process_tweet (up to its first await), or leave the loop, write
\* LATEST and go to the sleep of line 200.  w is LATEST as it was when the
\* page arrived, h the hand-over history and lines what the step has logged
\* so far.  The locals of a completed cycle are dead (each is assigned before
\* its next use): they are cleared, and ended keeps what the cycle did.
ForLoop(c, p, nl, k, w, h, lines) ==
    IF k <= Len(p) /\ ~(p[k].timestamp <= LATEST)
    THEN /\ pc' = [pc EXCEPT ![c] = "check_banned"]
         /\ data' = [data EXCEPT ![c] = p]
         /\ new_latest' = [new_latest EXCEPT ![c] = nl]
         /\ i' = [i EXCEPT ![c] = k]
         /\ wm0' = [wm0 EXCEPT ![c] = w]
         /\ handed' = [handed EXCEPT ![c] = Append(h, p[k])]
         /\ Logs(c, lines)
         /\ Within
         /\ UNCHANGED <<LATEST, attempts>>
    ELSE /\ pc' = [pc EXCEPT ![c] = "sleep"]
         /\ data' = [data EXCEPT ![c] = <<>>]
         /\ new_latest' = [new_latest EXCEPT ![c] = 0]
         /\ i' = [i EXCEPT ![c] = 0]
         /\ wm0' = [wm0 EXCEPT ![c] = 0]
         /\ handed' = [handed EXCEPT ![c] = <<>>]
         /\ attempts' = [attempts EXCEPT ![c] = 0]
         /\ Logs(c, Append(lines, "Sleeping..."))
         /\ ended' = [chat |-> c, data |-> p, wm0 |-> w, handed |-> h,
                      attempts |-> attempts[c]]
         /\ LATEST' = nl

\* process_tweet returned: the for loop goes on with the next tweet.
NextTweet(c, lines) ==
    ForLoop(c, data[c], new_latest[c], i[c] + 1, wm0[c], handed[c], lines)

\* Lines 196-200: except Exception logs, then the sleep of line 200.  The
\* cycle's locals are dead from here on (each is assigned before its next
\* use), so they are cleared.
Handler(c) ==
    /\ pc' = [pc EXCEPT ![c] = "sleep"]
    /\ Logs(c, <<"An error occurred", "Sleeping...">>)
    /\ data' = [data EXCEPT ![c] = <<>>]
    /\ new_latest' = [new_latest EXCEPT ![c] = 0]
    /\ i' = [i EXCEPT ![c] = 0]
    /\ attempts' = [attempts EXCEPT ![c] = 0]
    /\ handed' = [handed EXCEPT ![c] = <<>>]
    /\ wm0' = [wm0 EXCEPT ![c] = 0]
    /\ Within
    /\ UNCHANGED LATEST

\* fetch_data caught an exception and returned None: line 184 continues the
\* while loop, which fetches again.
FetchError(c) ==
    /\ Fetched(c)
    /\ Logs(c, <<"Error fetching data", "No results found.">>)
    /\ Silent
    /\ Within
    /\ UNCHANGED <<LATEST, TASKS, store, sent, pc, locals, cancelReq, supervisor,
                   history, topicVars>>


\* Mutant: an empty result list is taken as a page whose newest timestamp
\* is 0, so the watermark is written.
FetchEmptyAsPage(c) ==
    /\ Fetched(c)
    /\ pc' = [pc EXCEPT ![c] = "sleep"]
    /\ LATEST' = 0
    /\ Logs(c, <<"Sleeping...">>)
    /\ Silent
    /\ Within
    /\ UNCHANGED <<TASKS, store, sent, locals, cancelReq, supervisor, history,
                   topicVars>>

\* The response has no results: line 184 continues the while loop.
FetchEmpty(c) ==
    /\ Fetched(c)
    /\ Logs(c, <<"No results found.">>)
    /\ Silent
    /\ Within
    /\ UNCHANGED <<LATEST, TASKS, store, sent, pc, locals, cancelReq, supervisor,
                   history, topicVars>>

\* The response is truthy and has results, but line 186 raises on it (a
\* result without "timestamp"): the handler of line 196 catches it.
FetchMalformed(c) ==
    /\ Fetched(c)
    /\ Handler(c)
    /\ Silent
    /\ UNCHANGED <<TASKS, store, sent, cancelReq, supervisor, topicVars>>

\* The response has results p: lines 186-192 up to the first await.
FetchPage(c, p) ==
    /\ Fetched(c)
    /\ ForLoop(c, p, p[1].timestamp, 1, LATEST, <<>>, <<>>)
    /\ Silent
    /\ UNCHANGED <<TASKS, store, sent, cancelReq, supervisor, topicVars>>

\* asyncio.sleep(INTERVAL) of line 200 is over: back to line 180.
Sleep(c) ==
    /\ Resumed(c, "sleep")
    /\ pc' = [pc EXCEPT ![c] = "fetch"]
    /\ Logs(c, <<>>)
    /\ Silent
    /\ Within
    /\ UNCHANGED <<fetches, LATEST, TASKS, store, sent, locals, cancelReq, supervisor,
                   history, topicVars>>

(***************************************************************************)
(* process_tweet                                                           *)
(***************************************************************************)
StoreCalls == {"check_banned", "get_drop", "update_drop_posts", "insert_drop",
               "update_drop_messages"}


\* Mutant: the answer of check_banned is ignored.
CheckBannedIgnored(c) ==
    /\ Resumed(c, "check_banned")
    /\ pc' = [pc EXCEPT ![c] = "get_drop"]
    /\ Logs(c, <<>>)
    /\ Silent
    /\ Within
    /\ UNCHANGED <<fetches, LATEST, TASKS, store, sent, locals, cancelReq, supervisor,
                   history, topicVars>>

\* db.check_banned answered (line 150).
CheckBanned(c) ==
    /\ Resumed(c, "check_banned")
    /\ IF check_banned(tweet(c).user_id)
       THEN NextTweet(c, <<"User is banned">>)
       ELSE /\ pc' = [pc EXCEPT ![c] = "get_drop"]
            /\ Logs(c, <<>>)
            /\ Within
            /\ UNCHANGED <<LATEST, locals, history>>
    /\ Silent
    /\ UNCHANGED <<fetches, TASKS, store, sent, cancelReq, supervisor, topicVars>>


\* Mutant: the test of line 157 is missing, an existing record is always
\* appended to.
GetDropNoDupCheck(c) ==
    /\ Resumed(c, "get_drop")
    /\ pc' = [pc EXCEPT ![c] = IF get_drop(tweet(c).user_id).exists
                                THEN "update_drop_posts" ELSE "insert_drop"]
    /\ Logs(c, <<>>)
    /\ Silent
    /\ Within
    /\ UNCHANGED <<fetches, LATEST, TASKS, store, sent, locals, cancelReq, supervisor,
                   history, topicVars>>

\* db.get_drop answered (line 154); lines 156-163 up to the next await.
GetDrop(c) ==
    /\ Resumed(c, "get_drop")
    /\ LET drop == get_drop(tweet(c).user_id) IN
       IF drop.exists
       THEN IF ~InSeq(tweet(c).tweet_id, drop.postIds)
            THEN /\ pc' = [pc EXCEPT ![c] = "update_drop_posts"]
                 /\ Logs(c, <<>>)
                 /\ Within
                 /\ UNCHANGED <<LATEST, locals, history>>
            ELSE NextTweet(c, <<"Tweet already exists">>)
       ELSE /\ pc' = [pc EXCEPT ![c] = "insert_drop"]
            /\ Logs(c, <<>>)
            /\ Within
            /\ UNCHANGED <<LATEST, locals, history>>
    /\ Silent
    /\ UNCHANGED <<fetches, TASKS, store, sent, cancelReq, supervisor, topicVars>>

\* db.update_drop_posts appended the post id (line 158); lines 165-168 and
\* send_tweet up to its first await (line 92).
UpdateDropPosts(c) ==
    /\ Resumed(c, "update_drop_posts")
    /\ drops' = update_drop_posts(tweet(c).user_id, tweet(c).tweet_id)
    /\ pc' = [pc EXCEPT ![c] = "replace_short_urls_92"]
    /\ Logs(c, <<"New tweet found">>)
    /\ Silent
    /\ Within
    /\ UNCHANGED <<fetches, LATEST, TASKS, banned, messages, sent, locals, cancelReq,
                   supervisor, history, topicVars>>

\* db.insert_drop created the record (line 163); as above.
InsertDrop(c) ==
    /\ Resumed(c, "insert_drop")
    /\ drops' = insert_drop(tweet(c).user_id, tweet(c).tweet_id)
    /\ pc' = [pc EXCEPT ![c] = "replace_short_urls_92"]
    /\ Logs(c, <<"New tweet found">>)
    /\ Silent
    /\ Within
    /\ UNCHANGED <<fetches, LATEST, TASKS, banned, messages, sent, locals, cancelReq,
                   supervisor, history, topicVars>>

\* Mutant: no handler catches the exception of a store call, the task ends
\* with it.
StoreErrorEscapes(c) ==
    /\ pc[c] \in StoreCalls
    /\ ~cancelReq[c]
    /\ pc' = [pc EXCEPT ![c] = "failed"]
    /\ Logs(c, <<>>)
    /\ Silent
    /\ Within
    /\ UNCHANGED <<fetches, LATEST, TASKS, store, sent, locals, cancelReq, supervisor,
                   history, topicVars>>

\* A store call raised: no write; the exception leaves process_tweet (and
\* send_tweet, whose except clause names TelegramAPIError only) and the
\* handler of line 196 catches it.
StoreError(c) ==
    /\ pc[c] \in StoreCalls
    /\ ~cancelReq[c]
    /\ Handler(c)
    /\ Silent
    /\ UNCHANGED <<fetches, TASKS, store, sent, cancelReq, supervisor, topicVars>>

\* asyncio.sleep(1) of line 169 is over: process_tweet returns.
Pause(c) ==
    /\ Resumed(c, "pause")
    /\ NextTweet(c, <<>>)
    /\ Silent
    /\ UNCHANGED <<fetches, TASKS, store, sent, cancelReq, supervisor, topicVars>>

(***************************************************************************)
(* send_tweet                                                              *)
(***************************************************************************)
UrlCalls == {"replace_short_urls_92", "replace_short_urls_120"}

\* utils.replace_short_urls answered: for line 92, line 120 awaits it again;
\* for line 120, line 124 sets attempts and line 129 awaits the first send.
ReplaceShortUrls(c) ==
    /\ pc[c] \in UrlCalls
    /\ ~cancelReq[c]
    /\ IF pc[c] = "replace_short_urls_92"
       THEN /\ pc' = [pc EXCEPT ![c] = "replace_short_urls_120"]
            /\ UNCHANGED attempts
       ELSE /\ pc' = [pc EXCEPT ![c] = "send_message"]
            /\ attempts' = [attempts EXCEPT ![c] = 0]
    /\ Logs(c, <<>>)
    /\ Silent
    /\ Within
    /\ UNCHANGED <<fetches, LATEST, TASKS, store, sent, data, new_latest, i, cancelReq,
                   supervisor, history, topicVars>>

\* utils.replace_short_urls raised: the handler of line 196 catches it.
ReplaceShortUrlsError(c) ==
    /\ pc[c] \in UrlCalls
    /\ ~cancelReq[c]
    /\ Handler(c)
    /\ Silent
    /\ UNCHANGED <<fetches, TASKS, store, sent, cancelReq, supervisor, topicVars>>

\* bot.send_message delivered (line 129): line 137 awaits the store.
\* attempts is dead from here on (line 138 returns) and is cleared.
SendOk(c) ==
    /\ Resumed(c, "send_message")
    /\ LET topic_id == determine_topic_id(tweet(c).follower_count) IN
       sent' = [sent EXCEPT ![<<c, tweet(c).tweet_id>>] = Append(@, topic_id)]
    /\ pc' = [pc EXCEPT ![c] = "update_drop_messages"]
    /\ attempts' = [attempts EXCEPT ![c] = 0]
    /\ Logs(c, <<>>)
    /\ Silent
    /\ Within
    /\ UNCHANGED <<fetches, LATEST, TASKS, store, data, new_latest, i, cancelReq,
                   supervisor, history, topicVars>>

\* bot.send_message raised TelegramAPIError: lines 139-142.
SendFail(c) ==
    /\ Resumed(c, "send_message")
    /\ attempts' = [attempts EXCEPT ![c] = @ + 1]
    /\ pc' = [pc EXCEPT ![c] = "retry_sleep"]
    /\ Logs(c, <<"Failed to send message">>)
    /\ Silent
    /\ Within
    /\ UNCHANGED <<fetches, LATEST, TASKS, store, sent, data, new_latest, i, cancelReq,
                   supervisor, history, topicVars>>


\* Mutant: send_tweet raises once the attempts are used up.
RetrySleepRaises(c) ==
    /\ Resumed(c, "retry_sleep")
    /\ IF attempts[c] < max_attempts
       THEN /\ pc' = [pc EXCEPT ![c] = "send_message"]
            /\ Logs(c, <<>>)
            /\ Within
            /\ UNCHANGED <<LATEST, locals, history>>
       ELSE Handler(c)
    /\ Silent
    /\ UNCHANGED <<fetches, TASKS, store, sent, cancelReq, supervisor, topicVars>>

\* asyncio.sleep(1) of line 142 is over: the while of line 127 sends again,
\* or send_tweet returns and process_tweet sleeps at line 169.
RetrySleep(c) ==
    /\ Resumed(c, "retry_sleep")
    /\ pc' = [pc EXCEPT ![c] = IF attempts[c] < max_attempts
                                THEN "send_message" ELSE "pause"]
    /\ Logs(c, <<>>)
    /\ Silent
    /\ Within
    /\ UNCHANGED <<fetches, LATEST, TASKS, store, sent, locals, cancelReq, supervisor,
                   history, topicVars>>

\* Mutant: the return of line 138 is missing, the while of line 127 sends
\* again.
UpdateDropMessagesNoReturn(c) ==
    /\ Resumed(c, "update_drop_messages")
    /\ messages' = update_drop_messages(tweet(c).user_id, <<c, tweet(c).tweet_id>>)
    /\ pc' = [pc EXCEPT ![c] = "send_message"]
    /\ Logs(c, <<>>)
    /\ Silent
    /\ Within
    /\ UNCHANGED <<fetches, LATEST, TASKS, banned, drops, sent, locals, cancelReq,
                   supervisor, history, topicVars>>

\* db.update_drop_messages stored the message id (line 137): send_tweet
\* returns and process_tweet sleeps at line 169.
UpdateDropMessages(c) ==
    /\ Resumed(c, "update_drop_messages")
    /\ messages' = update_drop_messages(tweet(c).user_id, <<c, tweet(c).tweet_id>>)
    /\ pc' = [pc EXCEPT ![c] = "pause"]
    /\ Logs(c, <<>>)
    /\ Silent
    /\ Within
    /\ UNCHANGED <<fetches, LATEST, TASKS, banned, drops, sent, locals, cancelReq,
                   supervisor, history, topicVars>>

\* Mutant: the except clause of line 196 catches the CancelledError, the
\* task goes on to the sleep.
CancelledCaughtByLoop(c) ==
    /\ Running(c)
    /\ cancelReq[c]
    /\ cancelReq' = [cancelReq EXCEPT ![c] = FALSE]
    /\ Handler(c)
    /\ Silent
    /\ UNCHANGED <<fetches, TASKS, store, sent, supervisor, topicVars>>

\* CancelledError is thrown into the task at the await it is suspended at; no
\* except clause of the task catches it (they name Exception and
\* TelegramAPIError), so the task ends cancelled.
Cancelled(c) ==
    /\ Running(c)
    /\ cancelReq[c]
    /\ pc' = [pc EXCEPT ![c] = "cancelled"]
    /\ cancelReq' = [cancelReq EXCEPT ![c] = FALSE]
    /\ data' = [data EXCEPT ![c] = <<>>]
    /\ new_latest' = [new_latest EXCEPT ![c] = 0]
    /\ i' = [i EXCEPT ![c] = 0]
    /\ attempts' = [attempts EXCEPT ![c] = 0]
    /\ handed' = [handed EXCEPT ![c] = <<>>]
    /\ wm0' = [wm0 EXCEPT ![c] = 0]
    /\ Logs(c, <<>>)
    /\ Silent
    /\ Within
    /\ UNCHANGED <<fetches, LATEST, TASKS, store, sent, supervisor, topicVars>>

(***************************************************************************)
(* run                                                                     *)
(***************************************************************************)

\* Mutant: the test of line 204 is missing.
RunUnchecked(c) ==
    /\ pc' = [pc EXCEPT ![c] = "fetch"]
    /\ TASKS' = TASKS \cup {c}
    /\ status' = "starting"
    /\ rpc' = [rpc EXCEPT ![c] = "task"]
    /\ log' = NoLog
    /\ Within
    /\ UNCHANGED <<fetches, LATEST, store, sent, locals, cancelReq, spc, history,
                   topicVars>>

\* run(chat_id) is called: lines 204-206, or lines 207-212.  ClientSession()
\* and its __aenter__ do not suspend, so the test of line 204 and the write
\* of line 209 are one step; run then stays at the await of line 212.
Run(c) ==
    /\ IF c \in TASKS
       THEN /\ status' = "already_running"
            /\ UNCHANGED <<TASKS, pc, rpc>>
       ELSE /\ pc' = [pc EXCEPT ![c] = "fetch"]
            /\ TASKS' = TASKS \cup {c}
            /\ status' = "starting"
            /\ rpc' = [rpc EXCEPT ![c] = "task"]
    /\ log' = NoLog
    /\ Within
    /\ UNCHANGED <<fetches, LATEST, store, sent, locals, cancelReq, spc, history,
                   topicVars>>

\* The awaited task ended cancelled: lines 213-214 catch CancelledError and
\* run returns.
RunCancelled(c) ==
    /\ rpc[c] = "task"
    /\ pc[c] = "cancelled"
    /\ rpc' = [rpc EXCEPT ![c] = "idle"]
    /\ status' = NoStatus
    /\ Logs(c, <<"Task was cancelled">>)
    /\ Within
    /\ UNCHANGED <<fetches, LATEST, TASKS, store, sent, pc, locals, cancelReq, spc,
                   history, topicVars>>

(***************************************************************************)
(* stop                                                                    *)
(***************************************************************************)
\* stop(chat_id) is called: lines 218-220 up to the await of the "Stopping"
\* message, or line 225.
Stop(c) ==
    /\ spc[c] = "idle"
    /\ IF c \in TASKS
       THEN /\ status' = "stopping"
            /\ spc' = [spc EXCEPT ![c] = "send_message"]
       ELSE /\ status' = "not_running"
            /\ UNCHANGED spc
    /\ log' = NoLog
    /\ Within
    /\ UNCHANGED <<fetches, LATEST, TASKS, store, sent, pc, locals, cancelReq, rpc,
                   history, topicVars>>

\* The "Stopping" message is out: task.cancel() (line 221), which requests
\* cancellation unless the task is done, then line 222 awaits the task.
StopCancel(c) ==
    /\ spc[c] = "send_message"
    /\ cancelReq' = [cancelReq EXCEPT ![c] = Running(c)]
    /\ spc' = [spc EXCEPT ![c] = "task"]
    /\ status' = NoStatus
    /\ log' = NoLog
    /\ Within
    /\ UNCHANGED <<fetches, LATEST, TASKS, store, sent, pc, locals, rpc, history,
                   topicVars>>

\* The awaited task is done.  It ended cancelled, so line 222 raises
\* CancelledError in stop, which has no handler: line 223 is not reached.
\* (Line 223 runs only for a task that returned, and the loop never returns.)
StopAwait(c) ==
    /\ spc[c] = "task"
    /\ pc[c] \in {"cancelled", "returned"}
    /\ spc' = [spc EXCEPT ![c] = "idle"]
    /\ IF pc[c] = "cancelled"
       THEN /\ status' = "CancelledError"
            /\ UNCHANGED TASKS
       ELSE /\ TASKS' = TASKS \ {c}
            /\ status' = NoStatus
    /\ log' = NoLog
    /\ Within
    /\ UNCHANGED <<fetches, LATEST, store, sent, pc, locals, cancelReq, rpc, history,
                   topicVars>>

(***************************************************************************)
(* The specification                                                       *)
(***************************************************************************)
Next ==
    \E c \in Chats :
        \/ Run(c)
        \/ RunCancelled(c)
        \/ Stop(c)
        \/ StopCancel(c)
        \/ StopAwait(c)
        \/ FetchError(c)
        \/ FetchEmpty(c)
        \/ FetchMalformed(c)
        \/ \E p \in Pages : FetchPage(c, p)
        \/ Sleep(c)
        \/ CheckBanned(c)
        \/ GetDrop(c)
        \/ UpdateDropPosts(c)
        \/ InsertDrop(c)
        \/ StoreError(c)
        \/ Pause(c)
        \/ ReplaceShortUrls(c)
        \/ ReplaceShortUrlsError(c)
        \/ SendOk(c)
        \/ SendFail(c)
        \/ RetrySleep(c)
        \/ UpdateDropMessages(c)
        \/ Cancelled(c)

Spec == Init /\ [][Next]_vars

(***************************************************************************)
(* determine_topic_id on its own: the follower count is drawn around the   *)
(* thresholds, and the one action applies the function to it.              *)
(***************************************************************************)
Around(n) == (n - Spread)..(n + Spread)
FollowerCounts ==
    (0..Spread) \cup Around(10000) \cup Around(100000) \cup Around(1000000)
        \cup {50000, 500000}

InitTopic ==
    /\ LATEST = StartLatest
    /\ TASKS = {}
    /\ banned = BanList
    /\ drops = FreshDrops
    /\ messages = [k \in MsgKeys |-> 0]
    /\ sent = [k \in MsgKeys |-> <<>>]
    /\ pc = [c \in Chats |-> "none"]
    /\ data = [c \in Chats |-> <<>>]
    /\ new_latest = [c \in Chats |-> 0]
    /\ i = [c \in Chats |-> 0]
    /\ attempts = [c \in Chats |-> 0]
    /\ cancelReq = [c \in Chats |-> FALSE]
    /\ fetches = 0
    /\ rpc = [c \in Chats |-> "idle"]
    /\ spc = [c \in Chats |-> "idle"]
    /\ status = NoStatus
    /\ log = NoLog
    /\ ended = NoCycle
    /\ handed = [c \in Chats |-> <<>>]
    /\ wm0 = [c \in Chats |-> 0]
    /\ fc \in FollowerCounts
    /\ topic = 0

DetermineTopic ==
    /\ topic = 0
    /\ topic' = determine_topic_id(fc)
    /\ UNCHANGED <<LATEST, TASKS, store, sent, pc, locals, cancelReq, fetches,
                   supervisor, status, log, ended, history, fc>>

NextTopic == DetermineTopic

SpecTopic == InitTopic /\ [][NextTopic]_vars

(***************************************************************************)
(* The claims                                                              *)
(***************************************************************************)
Logged(line) == log # NoLog /\ InSeq(line, log[2])

RecordedIn(d, t) == d[t.user_id].exists /\ InSeq(t.tweet_id, d[t.user_id].postIds)
Recorded(t) == RecordedIn(drops, t)

AuthorOf(id) == (CHOOSE t \in Tweets : t.tweet_id = id).user_id

\* The task of chat c takes the step.
Steps(c) == pc'[c] # pc[c] \/ i'[c] # i[c]

\* C1: the watermark never decreases: LATEST after any step is greater than
\* or equal to LATEST before it.
C1_WatermarkNeverDecreases == [][LATEST' >= LATEST]_vars

\* C2: once stop(chat_id) has cancelled the task, the task has ended and stop
\* is over, chat_id is no longer a key of TASKS.
C2_StopRemovesTask ==
    \A c \in Chats : (pc[c] = "cancelled" /\ spc[c] = "idle") => c \notin TASKS

\* C3: once a post id is recorded in its author's drop record it stays
\* recorded, and a process_tweet call that finds it recorded returns without
\* a store write and without reaching the notifier (it goes on to the next
\* tweet, to the sleep, or is cancelled); no chat is sent the same post twice.
C3_RecordedPostIsSkipped ==
    /\ [](\A k \in MsgKeys : Len(sent[k]) <= 1)
    /\ [][/\ \A t \in Tweets : Recorded(t) => RecordedIn(drops', t)
          /\ \A c \in Chats :
                (pc[c] \in {"check_banned", "get_drop"} /\ Recorded(tweet(c)) /\ Steps(c))
                    => /\ pc'[c] \in {"get_drop", "check_banned", "sleep", "cancelled"}
                       /\ pc[c] = "get_drop" => pc'[c] # "get_drop"
                       /\ UNCHANGED <<store, sent>>]_vars

C3_Witness == Logged("Tweet already exists")

\* C4: for an author in the ban list no step changes the author's drop
\* record, delivers a message for a post of the author or persists a message
\* id for one, and no banned author's tweet gets past check_banned.
C4_BannedAuthorUntouched ==
    /\ [](\A c \in Chats :
            pc[c] \in (StoreCalls \cup UrlCalls \cup {"send_message", "retry_sleep", "pause"})
                         \ {"check_banned"}
                => tweet(c).user_id \notin banned)
    /\ [][/\ \A u \in banned : drops'[u] = drops[u]
          /\ \A k \in MsgKeys : AuthorOf(k[2]) \in banned => sent'[k] = sent[k]
          /\ \A k \in MsgKeys : AuthorOf(k[2]) \in banned => messages'[k] = messages[k]]_vars

C4_Witness == Logged("User is banned") /\ drops["u2"].exists

\* C5: run(chat_id) for a chat that has an entry in TASKS creates no task,
\* leaves TASKS and every task as they are and reports "already running".
C5_RunWhenRunningIsNoop ==
    [][\A c \in Chats :
          (Run(c) /\ c \in TASKS)
              => /\ status' = "already_running"
                 /\ UNCHANGED <<TASKS, pc, locals, cancelReq, rpc, spc, LATEST>>]_vars

C5_Witness == status = "already_running" /\ \E c \in Chats : Running(c)

\* C6: stop(chat_id) for a chat without a running task reports "not
\* running", cancels nothing and leaves TASKS as it is.
C6_StopWhenNotRunningIsNoop ==
    [][\A c \in Chats :
          (Stop(c) /\ ~Running(c))
              => /\ status' = "not_running"
                 /\ UNCHANGED <<TASKS, pc, cancelReq, spc>>]_vars

Newer(p, w) == SelectSeq(p, LAMBDA t : t.timestamp > w)

\* C7: a cycle that completes on a page sorted newest first has handed to
\* process_tweet exactly the tweets newer than the watermark the page met, in
\* feed order, and leaves the watermark at the timestamp of the first tweet.
C7_CycleHandsExactlyTheNewer ==
    (ended # NoCycle /\ IsNewestFirst(ended.data))
        => /\ ended.handed = Newer(ended.data, ended.wm0)
           /\ LATEST = ended.data[1].timestamp

\* C8: a cycle whose fetch fails or returns no results leaves the watermark
\* as it is, makes no store call and no transport send.
C8_EmptyCycleIsNoop ==
    [][\A c \in Chats :
          (FetchError(c) \/ FetchEmpty(c))
              => /\ LATEST' = LATEST
                 /\ pc'[c] \notin (StoreCalls \cup {"send_message"})
                 /\ UNCHANGED <<store, sent>>]_vars

C8_Witness == Logged("No results found.") /\ LATEST = StartLatest

Exhausted(c) == attempts[c] = max_attempts

\* C9: when the third send of an item fails, the post id stays recorded, no
\* exception leaves send_tweet or process_tweet (the task goes to the pause
\* of line 169 and from there to the next tweet or to the end of the cycle),
\* and the end of the cycle writes the watermark and goes to the sleep.
C9_ExhaustedDeliveryGoesOn ==
    /\ [](\A c \in Chats :
            /\ attempts[c] <= max_attempts
            /\ (pc[c] \in {"retry_sleep", "pause"} /\ Exhausted(c)) => Recorded(tweet(c)))
    /\ [][\A c \in Chats :
            /\ (pc[c] = "send_message" /\ Steps(c) /\ pc'[c] # "cancelled")
                  => pc'[c] \in {"update_drop_messages", "retry_sleep"}
            /\ (pc[c] = "retry_sleep" /\ Exhausted(c) /\ Steps(c))
                  => pc'[c] \in {"pause", "cancelled"}
            /\ (pc[c] = "pause" /\ Exhausted(c) /\ Steps(c))
                  => \/ pc'[c] = "cancelled"
                     \/ pc'[c] = "check_banned" /\ i'[c] = i[c] + 1
                     \/ /\ pc'[c] = "sleep"
                        /\ ended' # NoCycle
                        /\ LATEST' = new_latest[c]]_vars

C9_Witness ==
    /\ ended # NoCycle
    /\ ended.attempts = max_attempts
    /\ Len(ended.handed) > 1
    /\ pc[ended.chat] = "sleep"
    /\ LATEST = ended.data[1].timestamp

\* C10: determine_topic_id depends on the follower count alone, with
\* exclusive thresholds: above 1,000,000 it is 6, else above 100,000 it is
\* 5, else above 10,000 it is 4, else 3.
C10_TopicThresholds ==
    topic # 0 =>
        /\ fc > 1000000 => topic = 6
        /\ (fc > 100000 /\ fc <= 1000000) => topic = 5
        /\ (fc > 10000 /\ fc <= 100000) => topic = 4
        /\ fc <= 10000 => topic = 3
        /\ fc = 1000001 => topic = 6
        /\ fc \in {1000000, 500000, 100001} => topic = 5
        /\ fc \in {100000, 50000, 10001} => topic = 4
        /\ fc \in {10000, 0} => topic = 3

C10_Witness == fc = 1000000 /\ topic = 5

\* The step is the handler of line 196 abandoning the cycle of chat c while
\* the cycle is inside the for loop.
Abandons(c) ==
    /\ pc[c] \in (StoreCalls \cup UrlCalls)
    /\ pc'[c] = "sleep"
    /\ log' = <<c, <<"An error occurred", "Sleeping...">>>>

\* C11: every fetch of a task is followed by the sleep of the interval before
\* its next fetch: the step that answers a fetch takes the task out of the
\* await of the fetch (to the for loop, or to the sleep after a failed or
\* empty fetch), and a task comes to that await only from the sleep or from
\* its creation.
C11_SleepBetweenFetches ==
    [][/\ fetches' # fetches
            => \E c \in Chats : pc[c] = "fetch" /\ pc'[c] \in {"check_banned", "sleep"}
       /\ \A c \in Chats :
            (pc'[c] = "fetch" /\ pc[c] # "fetch") => pc[c] \in {"sleep", "none", "cancelled"}]_vars

\* C12: run(chat_id) for a chat whose task was started and then stopped (the
\* task has ended cancelled, stop and the earlier run are over) creates and
\* registers a new task and reports "starting".
C12_StartAfterStopStarts ==
    [][\A c \in Chats :
          (pc[c] = "cancelled" /\ spc[c] = "idle" /\ rpc[c] = "idle" /\ Run(c))
              => /\ pc'[c] = "fetch"
                 /\ c \in TASKS'
                 /\ status' = "starting"]_vars

\* C13: a cycle completed by the task of one chat leaves the watermark that
\* the running task of another chat filters against as it is.
C13_TaskOwnsWatermark ==
    [][\A b \in Chats :
          (Running(b) /\ ended' # NoCycle /\ ended'.chat # b) => LATEST' = LATEST]_vars

\* C14: every running task is the one registered in TASKS for its chat (so
\* run starts no second one), and every key of TASKS has a task that has not
\* ended, or one whose end stop is still waiting to see.
C14_OneLiveTaskPerKey ==
    \A c \in Chats :
        /\ Running(c) => c \in TASKS
        /\ c \in TASKS => (Running(c) \/ spc[c] = "task")

\* C18: for each post at most one process_tweet call over all tasks records
\* it and notifies for it: its id is in the author's record once, and it is
\* delivered to one chat at most.
C18_NoCrossTaskRace ==
    \A t \in Tweets :
        /\ Cardinality({c \in Chats : Len(sent[<<c, t.tweet_id>>]) > 0}) <= 1
        /\ Len(SelectSeq(drops[t.user_id].postIds, LAMBDA id : id = t.tweet_id)) <= 1

\* C19: the step that abandons a cycle part-way through a page leaves the
\* watermark, the store and the messages delivered as they are, and the
\* tweets of the page not yet evaluated that were newer than the watermark
\* the page met are still newer than the watermark.
C19_AbandonedCycleKeepsPending ==
    [][\A c \in Chats :
          Abandons(c)
              => /\ LATEST' = LATEST
                 /\ UNCHANGED <<store, sent>>
                 /\ \A k \in (i[c] + 1)..Len(data[c]) :
                        data[c][k].timestamp > wm0[c] => data[c][k].timestamp > LATEST']_vars

\* C20: once process_tweet has recorded the post id (the task is in the
\* calls of send_tweet that precede the first send), the task's next steps
\* lead to the first bot.send_message: it does not leave them for the sleep
\* or end before a send is attempted.
C20_RecordedIsAttempted ==
    [][\A c \in Chats :
          (pc[c] \in UrlCalls /\ Steps(c)) => pc'[c] \in (UrlCalls \cup {"send_message"})]_vars

\* C15: a task that stop has called cancel() on ends cancelled at the await
\* it is suspended at: its next step, whatever it is waiting for, is the
\* end of the task, no handler of the task takes the cancellation, and the
\* ended task takes no further step (only a new run for the chat starts a
\* task again).
C15_CancellationEndsTask ==
    /\ [](\A c \in Chats : cancelReq[c] => Running(c))
    /\ [][\A c \in Chats :
            /\ (spc[c] = "send_message" /\ spc'[c] = "task" /\ Running(c)) => cancelReq'[c]
            /\ cancelReq[c]
                  => \/ pc'[c] = "cancelled" /\ ~cancelReq'[c]
                     \/ pc'[c] = pc[c] /\ i'[c] = i[c] /\ cancelReq'[c]
            /\ (pc[c] = "cancelled" /\ Steps(c)) => (c \notin TASKS /\ status' = "starting")]_vars

C15_Witness ==
    \E k \in MsgKeys :
        /\ pc[k[1]] = "cancelled"
        /\ spc[k[1]] = "task"
        /\ Len(sent[k]) = 1
        /\ messages[k] = 0

\* The awaits a live polling task can be suspended at.
LivePositions == {"fetch", "sleep", "pause", "send_message", "retry_sleep"}
                     \cup StoreCalls \cup UrlCalls

\* C16: a polling task ends through cancellation only: it is at one of the
\* awaits of the loop until cancel() was called on it, a step that logs "An
\* error occurred" leaves it at the sleep of the interval, a failed fetch
\* leaves it fetching, and the sleep leads to the next fetch.
C16_OnlyCancellationEndsTask ==
    /\ [](\A c \in Chats : pc[c] \in LivePositions \cup {"none", "cancelled"})
    /\ [][\A c \in Chats :
            /\ (pc[c] \in LivePositions /\ pc'[c] \notin LivePositions)
                  => (cancelReq[c] /\ pc'[c] = "cancelled")
            /\ log' = <<c, <<"An error occurred", "Sleeping...">>>> => pc'[c] = "sleep"
            /\ log' = <<c, <<"Error fetching data", "No results found.">>>> => pc'[c] = "fetch"
            /\ (pc[c] = "sleep" /\ Steps(c)) => pc'[c] \in {"fetch", "cancelled"}]_vars

C16_Witness ==
    /\ Logged("An error occurred")
    /\ pc[log[1]] = "sleep"
    /\ ~cancelReq[log[1]]
    /\ \E t \in Tweets : Recorded(t) /\ drops # EarlierDrops

====
